---- MODULE Spec2Model ----
(***************************************************************************)
(* A model of the session/queueing engine of the Gemini Live client:       *)
(*   src/src/session/manager.py  SessionManager                            *)
(*   src/src/core.py             LiveClient                                *)
(*   src/src/audio/manager.py    AudioManager                              *)
(*   src/src/video/manager.py    VideoManager                              *)
(*   src/src/config.py           Config                                    *)
(*                                                                         *)
(* The program is modelled in parts that share this module's state:        *)
(*   SpecConnect  run() up to the task group: connect with fallbacks,      *)
(*                entering the connection, the except/finally of run()     *)
(*   SpecTurn     the inbound decode loop receive_audio and play_audio     *)
(*   SpecQueue    the producers, out_queue and send_realtime               *)
(*   SpecSend     SpecQueue with the typed text path of send_text          *)
(*   SpecHist     the rolling conversation history                         *)
(*   SpecLife     run() with its task group from connect to cleanup, under *)
(*                the fairness of the event loop                           *)
(*   SpecToggle   the video producers and the commands that switch them    *)
(*   SpecText     send_text line by line, next to the audio path           *)
(*   SpecDrain    the outbound path under the fairness of the drain loop   *)
(*   SpecTool     the decode loop with turns that hold tool calls          *)
(*   SpecCtl      send_text with its failing reads, and the end of run()   *)
(* main of src/client.py is the operator of that name.                     *)
(***************************************************************************)
EXTENDS Integers, Sequences, FiniteSets, TLC

VARIABLES
    \* ---- connection (SessionManager.try_connect_with_fallbacks, LiveClient.run)
    MODEL_NAME,        \* Config.MODEL_NAME (environment)
    FALLBACK_MODELS,   \* Config.FALLBACK_MODELS
    fate,              \* what the remote endpoint does with each candidate position
    run_pc,            \* where run() is
    idx,               \* position of the for-loop of try_connect_with_fallbacks
    attempts,          \* positions on which connect() was called, in order
    raised,            \* the exception travelling to run()'s except clauses
    session,           \* model of the live session, or NoSession
    tasks_started,     \* the task group has created its tasks
    report,            \* which branch of run()'s except clauses ran
    cleanups,          \* number of calls of LiveClient.cleanup
    \* ---- conversation history (SessionManager)
    CONVERSATION_MEMORY,   \* Config.CONVERSATION_MEMORY (environment)
    conversation_history,  \* SessionManager.conversation_history
    append_log,            \* every entry appended since the history was last empty
    \* ---- inbound decode loop (SessionManager.receive_audio)
    decode_pc,             \* where receive_audio is
    turn_no,               \* number of session.receive() calls so far
    ev_no,                 \* number of responses the current turn yielded
    current_response,      \* self.current_response: the text tokens (the number of
                           \* the response that carried each), in order
    tokens,                \* the text tokens the current turn's stream delivered
    response_started,      \* local of the turn
    has_content,           \* local of the turn
    search_results_shown,  \* local of the turn
    search_prints,         \* times the turn printed "Performing Google Search"
    code_execution_shown,  \* local of the turn
    is_ai_speaking,        \* self.is_ai_speaking
    search_enabled,        \* self.search_enabled
    audio_in_queue,        \* asyncio.Queue(): the playback queue
    last_end,              \* how the latest turn ended
    flushed,               \* number of chunks the latest flush discarded
    \* ---- playback (AudioManager.play_audio)
    play_pc,               \* where play_audio is
    playing,               \* the chunk being written to the output stream
    stale_taken,           \* play_audio took a chunk of a turn older than the current one
    \* ---- outbound path (LiveClient.run, send_text; the producers; send_realtime)
    video_mode,            \* LiveClient.video_mode: camera, screen, both or none
    camera_enabled,        \* VideoManager.camera_enabled
    screen_enabled,        \* VideoManager.screen_enabled
    out_queue,             \* asyncio.Queue(maxsize=5)
    mic_pc, mic_item,      \* AudioManager.listen_audio and the message it holds
    cam_pc, cam_item,      \* VideoManager.get_frames and the frame it holds
    scr_pc, scr_item,      \* VideoManager.get_screen and the frame it holds
    drain_pc, drain_msg,   \* SessionManager.send_realtime and the message it sends
    ctl_pc,                \* LiveClient.send_text
    produced,              \* number of media messages captured so far
    accepted,              \* number of puts out_queue accepted so far
    drained,               \* number of session.send calls of send_realtime
    typed,                 \* number of text messages typed so far
    direct_sends,          \* number of session.send calls of send_message_with_context
    overtaken,             \* a text was sent while accepted media waited in out_queue
    AUTO_END_TURN,         \* Config.AUTO_END_TURN (environment)
    text,                  \* send_text: the line input() returned last
    lines_read,            \* number of lines input() returned so far
    last_send,             \* the latest call session.send(input=, end_of_turn=)
                           \* of send_message_with_context
    input_errors,          \* number of exceptions raised in the loop of send_text
    last_error             \* the class of the latest of them

connVars == <<MODEL_NAME, FALLBACK_MODELS, fate, run_pc, idx, attempts, raised,
              session, tasks_started, report, cleanups>>

histVars == <<CONVERSATION_MEMORY, conversation_history, append_log>>

turnVars == <<decode_pc, turn_no, ev_no, current_response, tokens,
              response_started,
              has_content, search_results_shown, search_prints,
              code_execution_shown,
              is_ai_speaking, search_enabled, audio_in_queue, last_end, flushed,
              play_pc, playing, stale_taken>>

micVars == <<mic_pc, mic_item>>
camVars == <<cam_pc, cam_item>>
scrVars == <<scr_pc, scr_item>>
drainVars == <<drain_pc, drain_msg>>
flagVars == <<video_mode, camera_enabled, screen_enabled>>
logVars == <<produced, accepted, drained, typed, direct_sends, overtaken>>

textVars == <<AUTO_END_TURN, text, lines_read, last_send, input_errors,
              last_error>>

queueVars == <<flagVars, out_queue, micVars, camVars, scrVars, drainVars,
               ctl_pc, logVars, textVars>>

vars == <<connVars, histVars, turnVars, queueVars>>

-----------------------------------------------------------------------------
(* Bounds *)

MaxFallbacks == 2
MaxTurns == 2       \* turns the remote endpoint serves
MaxEvents == 2      \* responses of one turn
MaxMsgs == 7        \* media messages the producers capture
MaxTexts == 1       \* text messages the user types
MaxMemory == 3      \* values of CONVERSATION_MEMORY
MaxAppends == 5     \* appends to the history between two clears
MaxLines == 2       \* lines the user enters
MaxToolEvents == 3  \* responses of one turn in the runs with tool calls
MaxInputErrors == 2 \* exceptions raised in the loop of send_text

-----------------------------------------------------------------------------
(* Connection: values *)

\* Model names are numbered: i >= 1 is the i-th entry of the shipped
\* Config.FALLBACK_MODELS (all different), 0 is a name that is on no list.
\* Config.MODEL_NAME comes from the environment and may be any of them.
ModelIds == 0..MaxFallbacks

\* Config.FALLBACK_MODELS is a list literal of two names; the claims speak of
\* lists of any length, so the model takes each prefix of it.
FallbackLists == {[i \in 1..n |-> i] : n \in 0..MaxFallbacks}

NoSession == -1
NoError == [cls |-> "none", quota |-> FALSE, c1011 |-> FALSE,
            allModels |-> FALSE, allAvailable |-> FALSE]

\* An exception is its class and the markers the code looks for in str(e).
RawError(cls, quota, c1011) ==
    [cls |-> cls, quota |-> quota, c1011 |-> c1011,
     allModels |-> FALSE, allAvailable |-> FALSE]

\* The errors the remote endpoint can answer a connection with.
ConnectErrors ==
    { RawError("ConnectionClosedError", TRUE, FALSE),
      RawError("ConnectionClosedError", FALSE, TRUE),
      RawError("ConnectionClosedError", FALSE, FALSE),
      RawError("Exception", TRUE, FALSE),
      RawError("Exception", FALSE, FALSE) }

\* client.aio.live.connect(model=..., config=...) hands back a connection
\* manager that run() enters with "async with": a failed connection shows
\* either in the call (inside the try of the loop) or on entering the manager.
Fates ==
    {[at |-> "ok", err |-> NoError]}
    \cup {[at |-> "call", err |-> e] : e \in ConnectErrors}
    \cup {[at |-> "enter", err |-> e] : e \in ConnectErrors}

\* Exception("All models exhausted due to quota limits")
ExhaustedError ==
    [cls |-> "Exception", quota |-> TRUE, c1011 |-> FALSE,
     allModels |-> TRUE, allAvailable |-> FALSE]

\* Exception("All available models failed to connect")
AllFailedError ==
    [cls |-> "Exception", quota |-> FALSE, c1011 |-> FALSE,
     allModels |-> FALSE, allAvailable |-> TRUE]

\* Exception("Failed to connect with any available model")
NoModelError ==
    [cls |-> "Exception", quota |-> FALSE, c1011 |-> FALSE,
     allModels |-> FALSE, allAvailable |-> FALSE]

\* models_to_try = [Config.MODEL_NAME] + Config.FALLBACK_MODELS
models_to_try == <<MODEL_NAME>> \o FALLBACK_MODELS

\* "quota" in str(e).lower() or "1011" in str(e)
HasQuotaMarker(e) == e.quota \/ e.c1011

\* model == models_to_try[-1]: a comparison of model names
IsLastModel(model) == model = models_to_try[Len(models_to_try)]

\* One pass of the loop body for one candidate: what the try/except does
\* with the outcome of the connect call.
TryModel(model, f) ==
    IF f.at # "call"
    THEN [act |-> "return", exc |-> NoError]
    ELSE IF f.err.cls = "ConnectionClosedError"
         THEN IF HasQuotaMarker(f.err)
              THEN IF IsLastModel(model)
                   THEN [act |-> "raise", exc |-> ExhaustedError]
                   ELSE [act |-> "continue", exc |-> NoError]
              ELSE [act |-> "raise", exc |-> f.err]
         ELSE IF IsLastModel(model)
              THEN [act |-> "raise", exc |-> AllFailedError]
              ELSE [act |-> "continue", exc |-> NoError]

\* The except clauses of run(), in order.
RunReport(e) ==
    IF e.cls = "CancelledError" THEN "exiting"
    ELSE IF e.cls = "ConnectionClosedError"
         THEN IF HasQuotaMarker(e) THEN "quota" ELSE "connection_error"
         ELSE IF e.quota THEN "quota"
              ELSE IF e.allModels \/ e.allAvailable THEN "silent"
                   ELSE "unexpected"

-----------------------------------------------------------------------------
(* The state of each part at construction (the __init__ methods) *)

\* Config.CONVERSATION_MEMORY = int(os.getenv("CONVERSATION_MEMORY", "50"))
DefaultMemory == 50

\* SessionManager.__init__: conversation_history = []
HistIdle ==
    /\ CONVERSATION_MEMORY = DefaultMemory
    /\ conversation_history = <<>>
    /\ append_log = <<>>

\* An audio chunk is known by the turn whose stream carried it.
NoChunk == [turn |-> 0]

\* SessionManager.__init__ and the queues run() creates; no task has run.
TurnIdle ==
    /\ decode_pc = "receive"
    /\ turn_no = 0
    /\ ev_no = 0
    /\ current_response = <<>>
    /\ tokens = <<>>
    /\ response_started = FALSE
    /\ has_content = FALSE
    /\ search_results_shown = FALSE
    /\ search_prints = 0
    /\ code_execution_shown = FALSE
    /\ is_ai_speaking = FALSE
    /\ search_enabled = TRUE
    /\ audio_in_queue = <<>>
    /\ last_end = "none"
    /\ flushed = 0
    /\ play_pc = "open"
    /\ playing = NoChunk
    /\ stale_taken = FALSE

\* A media message: the producer it comes from and, once out_queue accepted
\* it, its number in the order of acceptance.
NoMsg == [src |-> "none", acc |-> 0]

VideoModes == {"camera", "screen", "both", "none"}

\* LiveClient.__init__ / VideoManager.__init__ for a video mode, and the tasks
\* run() creates for it; no task has run yet.
QueueStart(mode) ==
    /\ video_mode = mode
    /\ camera_enabled = (mode \in {"camera", "both"})
    /\ screen_enabled = (mode \in {"screen", "both"})
    /\ out_queue = <<>>
    /\ mic_pc = "open"
    /\ mic_item = NoMsg
    /\ cam_pc = IF mode \in {"camera", "both"} THEN "open" ELSE "absent"
    /\ cam_item = NoMsg
    /\ scr_pc = IF mode \in {"screen", "both"} THEN "start" ELSE "absent"
    /\ scr_item = NoMsg
    /\ drain_pc = "get"
    /\ drain_msg = NoMsg
    /\ ctl_pc = "input"
    /\ produced = 0
    /\ accepted = 0
    /\ drained = 0
    /\ typed = 0
    /\ direct_sends = 0
    /\ overtaken = FALSE

\* A line of input: its word (a command word, some other word, or nothing),
\* whether it is written in upper case, and whether blanks surround it.
NoLine == [word |-> "none", upper |-> FALSE, pad |-> FALSE]

NoSend == [input |-> 0, end_of_turn |-> FALSE]

\* send_text before the first line, no text sent yet.
TextStart ==
    /\ text = NoLine
    /\ lines_read = 0
    /\ last_send = NoSend
    /\ input_errors = 0
    /\ last_error = "none"

\* Config.AUTO_END_TURN = os.getenv("AUTO_END_TURN", "true").lower() == "true"
TextIdle == AUTO_END_TURN = TRUE /\ TextStart

\* Config.DEFAULT_VIDEO_MODE = os.getenv("DEFAULT_VIDEO_MODE", "screen")
QueueIdle == QueueStart("screen") /\ TextIdle

\* run() after a successful connection with the shipped configuration: the
\* first candidate connected and the task group holds its tasks.
Connected ==
    /\ MODEL_NAME = 0
    /\ FALLBACK_MODELS = [i \in 1..MaxFallbacks |-> i]
    /\ fate = [i \in 1..(1 + MaxFallbacks) |-> [at |-> "ok", err |-> NoError]]
    /\ run_pc = "running"
    /\ idx = 1
    /\ attempts = <<1>>
    /\ raised = NoError
    /\ session = 0
    /\ tasks_started = TRUE
    /\ report = "none"
    /\ cleanups = 0

-----------------------------------------------------------------------------
(* Connection: actions *)

InitConnect ==
    /\ MODEL_NAME \in ModelIds
    /\ FALLBACK_MODELS \in FallbackLists
    /\ fate \in [1..(1 + Len(FALLBACK_MODELS)) -> Fates]
    /\ run_pc = "try_connect"
    /\ idx = 1
    /\ attempts = <<>>
    /\ raised = NoError
    /\ session = NoSession
    /\ tasks_started = FALSE
    /\ report = "none"
    /\ cleanups = 0
    /\ HistIdle
    /\ TurnIdle
    /\ QueueIdle

\* try_connect_with_fallbacks: one iteration of "for model in models_to_try",
\* or the raise after the loop.
TryConnect ==
    /\ run_pc = "try_connect"
    /\ IF idx > Len(models_to_try)
       THEN /\ raised' = NoModelError
            /\ run_pc' = "except"
            /\ UNCHANGED <<idx, attempts>>
       ELSE LET r == TryModel(models_to_try[idx], fate[idx]) IN
            /\ attempts' = Append(attempts, idx)
            /\ raised' = r.exc
            /\ run_pc' = CASE r.act = "return" -> "enter"
                           [] r.act = "raise" -> "except"
                           [] OTHER -> "try_connect"
            /\ idx' = IF r.act = "continue" THEN idx + 1 ELSE idx
    /\ UNCHANGED <<MODEL_NAME, FALLBACK_MODELS, fate, session, tasks_started,
                   report, cleanups>>
    /\ UNCHANGED <<histVars, turnVars, queueVars>>

\* run(): "async with (connection_manager as session, asyncio.TaskGroup() as tg)"
\* and, once inside, the creation of the tasks.
EnterSession ==
    /\ run_pc = "enter"
    /\ IF fate[idx].at = "enter"
       THEN /\ raised' = fate[idx].err
            /\ run_pc' = "except"
            /\ UNCHANGED <<session, tasks_started>>
       ELSE /\ session' = models_to_try[idx]
            /\ tasks_started' = TRUE
            /\ run_pc' = "running"
            /\ UNCHANGED raised
    /\ UNCHANGED <<MODEL_NAME, FALLBACK_MODELS, fate, idx, attempts, report,
                   cleanups>>
    /\ UNCHANGED <<histVars, turnVars, queueVars>>

\* run(): the except clause that matches the exception.
RunExcept ==
    /\ run_pc = "except"
    /\ report' = RunReport(raised)
    /\ run_pc' = "finally"
    /\ UNCHANGED <<MODEL_NAME, FALLBACK_MODELS, fate, idx, attempts, raised,
                   session, tasks_started, cleanups>>
    /\ UNCHANGED <<histVars, turnVars, queueVars>>

\* A cleanup that is part of the quit path only.
CleanupRuns_OnQuitOnly(branch) == branch = "exiting"

\* "finally: self.cleanup()" runs whatever except clause ran before it.
CleanupRuns(branch) == TRUE

\* run(): finally: self.cleanup()
RunFinally ==
    /\ run_pc = "finally"
    /\ cleanups' = IF CleanupRuns(report) THEN cleanups + 1 ELSE cleanups
    /\ run_pc' = "done"
    /\ UNCHANGED <<MODEL_NAME, FALLBACK_MODELS, fate, idx, attempts, raised,
                   session, tasks_started, report>>
    /\ UNCHANGED <<histVars, turnVars, queueVars>>

NextConnect == TryConnect \/ EnterSession \/ RunExcept \/ RunFinally

SpecConnect == InitConnect /\ [][NextConnect]_vars

-----------------------------------------------------------------------------
(* Conversation history: operators *)

\* Python's s[start:] for an integer start (a negative start counts from the
\* end, and is clamped to the list).
PySliceFrom(s, start) ==
    LET first == IF start < 0
                 THEN (IF Len(s) + start < 0 THEN 0 ELSE Len(s) + start)
                 ELSE (IF start > Len(s) THEN Len(s) ELSE start)
    IN SubSeq(s, first + 1, Len(s))

\* An append that keeps the oldest entries ([:K] for [-K:]).
add_to_conversation_history_KeepOldest(h, role, content) ==
    LET h2 == Append(h, [role |-> role, content |-> content]) IN
    IF Len(h2) > CONVERSATION_MEMORY
    THEN SubSeq(h2, 1, CONVERSATION_MEMORY)
    ELSE h2

\* SessionManager.add_to_conversation_history: append, then keep
\* conversation_history[-CONVERSATION_MEMORY:] when the list got too long.
add_to_conversation_history(h, role, content) ==
    LET h2 == Append(h, [role |-> role, content |-> content]) IN
    IF Len(h2) > CONVERSATION_MEMORY
    THEN PySliceFrom(h2, 0 - CONVERSATION_MEMORY)
    ELSE h2

-----------------------------------------------------------------------------
(* Inbound decode loop and playback *)

\* A response of the turn's stream: which of the attributes the loop looks at
\* are set (response.data, .tool_call, .executable_code,
\* .code_execution_result, .text).
Response(d, tc, ec, cr, t) ==
    [data |-> d, tool_call |-> tc, executable_code |-> ec,
     code_execution_result |-> cr, text |-> t]

Responses ==
    { Response(TRUE, FALSE, FALSE, FALSE, FALSE),    \* an audio chunk
      Response(FALSE, TRUE, FALSE, FALSE, FALSE),    \* a tool call
      Response(FALSE, FALSE, TRUE, FALSE, FALSE),    \* executable code
      Response(FALSE, FALSE, FALSE, TRUE, FALSE),    \* a code execution result
      Response(FALSE, FALSE, FALSE, FALSE, TRUE),    \* a text token
      Response(FALSE, TRUE, FALSE, FALSE, TRUE),     \* a tool call with text
      Response(FALSE, FALSE, FALSE, FALSE, FALSE) }  \* none of them

\* A flush that takes one chunk only ("if" for "while").
DrainAudioQueue_One(q) == IF q = <<>> THEN q ELSE Tail(q)

\* "while not self.audio_in_queue.empty(): self.audio_in_queue.get_nowait()"
DrainAudioQueue(q) == <<>>

\* The event a response is decoded into: the first branch of the loop body
\* whose test it passes.
EventKind(r, search) ==
    IF r.data THEN "audio"
    ELSE IF r.tool_call /\ search THEN "tool_call"
    ELSE IF r.executable_code THEN "executable_code"
    ELSE IF r.code_execution_result THEN "code_execution_result"
    ELSE IF r.text THEN "text"
    ELSE "other"

\* A commit test that asks for a silent assistant.
ShouldCommit_NotSpeaking(speaking, content) == ~speaking /\ content

\* "if self.is_ai_speaking and has_content"
ShouldCommit(speaking, content) == speaking /\ content

\* "turn = self.session.receive()" and the resets that follow it.
StartTurn ==
    /\ run_pc = "running"
    /\ decode_pc = "receive"
    /\ turn_no < MaxTurns
    /\ IF session = NoSession
       THEN UNCHANGED turnVars
       ELSE /\ turn_no' = turn_no + 1
            /\ ev_no' = 0
            /\ current_response' = <<>>
            /\ tokens' = <<>>
            /\ response_started' = FALSE
            /\ has_content' = FALSE
            /\ search_results_shown' = FALSE
            /\ search_prints' = 0
            /\ code_execution_shown' = FALSE
            /\ decode_pc' = "stream"
            /\ UNCHANGED <<is_ai_speaking, search_enabled, audio_in_queue,
                           last_end, flushed, play_pc, playing, stale_taken>>
    /\ UNCHANGED <<connVars, histVars, queueVars>>

\* An indicator printed for every tool call.
ShowIndicator_EveryCall(shown) == TRUE

\* "if not search_results_shown: print(Performing Google Search...)"
ShowIndicator(shown) == ~shown

\* One pass of "async for response in turn": the stream yields a response and
\* the loop body handles it.
Decode(limit) ==
    /\ run_pc = "running"
    /\ decode_pc = "stream"
    /\ ev_no < limit
    /\ \E r \in Responses :
        /\ ev_no' = ev_no + 1
        /\ tokens' = IF EventKind(r, search_enabled) = "text"
                      THEN Append(tokens, ev_no + 1)
                      ELSE tokens
        /\ IF r.data
           THEN \* self.audio_in_queue.put_nowait(data)
                /\ audio_in_queue' =
                       Append(audio_in_queue, [turn |-> turn_no])
                /\ UNCHANGED <<current_response, response_started, has_content,
                               search_results_shown, search_prints,
                               code_execution_shown,
                               is_ai_speaking>>
           ELSE IF r.tool_call /\ search_enabled
           THEN /\ search_prints' = IF ShowIndicator(search_results_shown)
                                  THEN search_prints + 1
                                  ELSE search_prints
                /\ search_results_shown' = TRUE
                /\ UNCHANGED <<current_response, response_started, has_content,
                               code_execution_shown, is_ai_speaking,
                               audio_in_queue>>
           ELSE IF r.executable_code
           THEN /\ code_execution_shown' = TRUE
                /\ UNCHANGED <<current_response, response_started, has_content,
                               search_results_shown, search_prints,
                               is_ai_speaking,
                               audio_in_queue>>
           ELSE IF r.code_execution_result
           THEN UNCHANGED <<current_response, response_started, has_content,
                            search_results_shown, search_prints,
                            code_execution_shown,
                            is_ai_speaking, audio_in_queue>>
           ELSE IF r.text
           THEN /\ is_ai_speaking' =
                       IF ~response_started THEN TRUE ELSE is_ai_speaking
                /\ response_started' = TRUE
                /\ current_response' =
                       Append(current_response, ev_no + 1)
                /\ has_content' = TRUE
                /\ UNCHANGED <<search_results_shown, search_prints,
                               code_execution_shown,
                               audio_in_queue>>
           ELSE UNCHANGED <<current_response, response_started, has_content,
                            search_results_shown, search_prints,
                            code_execution_shown,
                            is_ai_speaking, audio_in_queue>>
    /\ UNCHANGED <<decode_pc, turn_no, search_enabled, last_end, flushed,
                   play_pc, playing, stale_taken>>
    /\ UNCHANGED <<connVars, histVars, queueVars>>

DecodeResponse == Decode(MaxEvents)

\* The same pass in the runs with longer turns.
DecodeToolTurn == Decode(MaxToolEvents)

\* The stream is exhausted: the end-of-turn code. With text to commit the
\* loop appends it and sleeps 0.1 s before the flush; otherwise it flushes
\* at once.
TurnEnd ==
    /\ run_pc = "running"
    /\ decode_pc = "stream"
    /\ last_end' = "exhausted"
    /\ IF ShouldCommit(is_ai_speaking, has_content)
       THEN /\ conversation_history' =
                   add_to_conversation_history(conversation_history,
                                               "assistant", current_response)
            /\ append_log' = Append(append_log,
                   [role |-> "assistant", content |-> current_response])
            /\ is_ai_speaking' = FALSE
            /\ decode_pc' = "commit_sleep"
            /\ UNCHANGED <<audio_in_queue, flushed, CONVERSATION_MEMORY>>
       ELSE /\ audio_in_queue' = DrainAudioQueue(audio_in_queue)
            /\ flushed' = Len(audio_in_queue) - Len(audio_in_queue')
            /\ decode_pc' = "receive"
            /\ UNCHANGED <<is_ai_speaking, histVars>>
    /\ UNCHANGED <<turn_no, ev_no, current_response, tokens, response_started,
                   has_content, search_results_shown, search_prints,
                   code_execution_shown,
                   search_enabled, play_pc, playing, stale_taken>>
    /\ UNCHANGED <<connVars, queueVars>>

\* The 0.1 s sleep after a commit is over: the flush, then the next pass.
FlushAfterCommit ==
    /\ run_pc = "running"
    /\ decode_pc = "commit_sleep"
    /\ audio_in_queue' = DrainAudioQueue(audio_in_queue)
    /\ flushed' = Len(audio_in_queue) - Len(audio_in_queue')
    /\ decode_pc' = "receive"
    /\ UNCHANGED <<turn_no, ev_no, current_response, tokens, response_started,
                   has_content, search_results_shown, search_prints,
                   code_execution_shown,
                   is_ai_speaking, search_enabled, last_end, play_pc, playing,
                   stale_taken>>
    /\ UNCHANGED <<connVars, histVars, queueVars>>

\* An except clause for connection errors only.
IsException_ConnectionClosedOnly(e) == e.cls = "ConnectionClosedError"

\* "except Exception": every exception but a CancelledError (a
\* BaseException) is caught.
IsException(e) == e.cls # "CancelledError"

\* The stream raises: "except Exception" prints and sleeps 0.5 s. The rest
\* of the try body, the commit and the flush, is skipped.
DecodeRaise ==
    /\ run_pc = "running"
    /\ decode_pc = "stream"
    /\ last_end' = "exception"
    /\ \E e \in ConnectErrors :
        decode_pc' = IF IsException(e) THEN "error_sleep" ELSE "failed"
    /\ UNCHANGED <<turn_no, ev_no, current_response, tokens, response_started,
                   has_content, search_results_shown, search_prints,
                   code_execution_shown,
                   is_ai_speaking, search_enabled, audio_in_queue, flushed,
                   play_pc, playing, stale_taken>>
    /\ UNCHANGED <<connVars, histVars, queueVars>>

\* The 0.5 s sleep is over: back to the top of "while True".
RetryAfterError ==
    /\ run_pc = "running"
    /\ decode_pc = "error_sleep"
    /\ decode_pc' = "receive"
    /\ UNCHANGED <<turn_no, ev_no, current_response, tokens, response_started,
                   has_content, search_results_shown, search_prints,
                   code_execution_shown,
                   is_ai_speaking, search_enabled, audio_in_queue, last_end,
                   flushed, play_pc, playing, stale_taken>>
    /\ UNCHANGED <<connVars, histVars, queueVars>>

\* play_audio: the output stream is opened.
PlayOpen ==
    /\ run_pc = "running"
    /\ play_pc = "open"
    /\ play_pc' = "get"
    /\ UNCHANGED <<decode_pc, turn_no, ev_no, current_response, tokens,
                   response_started, has_content, search_results_shown, search_prints,
                   code_execution_shown, is_ai_speaking, search_enabled,
                   audio_in_queue, last_end, flushed, playing, stale_taken>>
    /\ UNCHANGED <<connVars, histVars, queueVars>>

\* play_audio: "bytestream = await self.audio_in_queue.get()" returns a chunk
\* and the write to the output stream starts.
PlayGet ==
    /\ run_pc = "running"
    /\ play_pc = "get"
    /\ audio_in_queue # <<>>
    /\ playing' = Head(audio_in_queue)
    /\ audio_in_queue' = Tail(audio_in_queue)
    /\ stale_taken' = (stale_taken \/ Head(audio_in_queue).turn < turn_no)
    /\ play_pc' = "write"
    /\ UNCHANGED <<decode_pc, turn_no, ev_no, current_response, tokens,
                   response_started, has_content, search_results_shown, search_prints,
                   code_execution_shown, is_ai_speaking, search_enabled,
                   last_end, flushed>>
    /\ UNCHANGED <<connVars, histVars, queueVars>>

\* play_audio: the write returned.
PlayWritten ==
    /\ run_pc = "running"
    /\ play_pc = "write"
    /\ play_pc' = "get"
    /\ playing' = NoChunk
    /\ UNCHANGED <<decode_pc, turn_no, ev_no, current_response, tokens,
                   response_started, has_content, search_results_shown, search_prints,
                   code_execution_shown, is_ai_speaking, search_enabled,
                   audio_in_queue, last_end, flushed, stale_taken>>
    /\ UNCHANGED <<connVars, histVars, queueVars>>

\* send_text: the commands "search on" and "search off"
\* (SessionManager.toggle_search).
CmdSearch ==
    /\ run_pc = "running"
    /\ ctl_pc = "input"
    /\ \E enabled \in BOOLEAN : search_enabled' = enabled
    /\ UNCHANGED <<decode_pc, turn_no, ev_no, current_response, tokens,
                   response_started, has_content, search_results_shown, search_prints,
                   code_execution_shown, is_ai_speaking, audio_in_queue,
                   last_end, flushed, play_pc, playing, stale_taken>>
    /\ UNCHANGED <<connVars, histVars, queueVars>>

InitTurn == Connected /\ HistIdle /\ TurnIdle /\ QueueIdle

NextTurn ==
    \/ StartTurn
    \/ DecodeResponse
    \/ TurnEnd
    \/ FlushAfterCommit
    \/ DecodeRaise
    \/ RetryAfterError
    \/ PlayOpen
    \/ PlayGet
    \/ PlayWritten
    \/ CmdSearch

SpecTurn == InitTurn /\ [][NextTurn]_vars

\* The decode loop alone, with turns long enough for text before and after a
\* tool call, and the search command.
NextTool ==
    \/ StartTurn
    \/ DecodeToolTurn
    \/ TurnEnd
    \/ FlushAfterCommit
    \/ DecodeRaise
    \/ RetryAfterError
    \/ CmdSearch

SpecTool == InitTurn /\ [][NextTool]_vars

-----------------------------------------------------------------------------
(* Outbound path: out_queue, the producers, send_realtime, send_text *)

\* self.out_queue = asyncio.Queue(maxsize=5)
OUT_QUEUE_MAXSIZE == 5

\* A full() that is late by one (> for >=).
QueueFull_Late(q) == Len(q) > OUT_QUEUE_MAXSIZE

\* asyncio.Queue.full(): qsize() >= maxsize
QueueFull(q) == Len(q) >= OUT_QUEUE_MAXSIZE

\* asyncio.Queue.put_nowait: the item goes to the right end of the deque
QueuePut(q, m) == Append(q, m)

\* A get that takes the newest item (pop() for popleft()).
PopIndex_Newest(q) == Len(q)

\* asyncio.Queue.get_nowait: popleft(), the item at the left end
PopIndex(q) == 1

QueueRemove(q, i) == SubSeq(q, 1, i - 1) \o SubSeq(q, i + 1, Len(q))

\* asyncio.CancelledError("User requested exit")
CancelledError ==
    [cls |-> "CancelledError", quota |-> FALSE, c1011 |-> FALSE,
     allModels |-> FALSE, allAvailable |-> FALSE]

\* out_queue accepts m.
Enqueue(m) ==
    /\ out_queue' = QueuePut(out_queue, [src |-> m.src, acc |-> accepted + 1])
    /\ accepted' = accepted + 1

\* listen_audio: the input stream is opened.
MicOpen ==
    /\ run_pc = "running"
    /\ mic_pc = "open"
    /\ mic_pc' = "read"
    /\ UNCHANGED <<mic_item, flagVars, out_queue, camVars, scrVars, drainVars,
                   ctl_pc, textVars, logVars>>
    /\ UNCHANGED <<connVars, histVars, turnVars>>

\* listen_audio: the read of one chunk returns, then out_queue.put.
MicRead ==
    /\ run_pc = "running"
    /\ mic_pc = "read"
    /\ produced < MaxMsgs
    /\ produced' = produced + 1
    /\ LET m == [src |-> "mic", acc |-> 0] IN
       IF QueueFull(out_queue)
       THEN /\ mic_pc' = "put"
            /\ mic_item' = m
            /\ UNCHANGED <<out_queue, accepted>>
       ELSE /\ Enqueue(m)
            /\ UNCHANGED micVars
    /\ UNCHANGED <<flagVars, camVars, scrVars, drainVars, ctl_pc, textVars, drained,
                   typed, direct_sends, overtaken>>
    /\ UNCHANGED <<connVars, histVars, turnVars>>

\* listen_audio: the suspended put is resumed with room in the queue.
MicPut ==
    /\ run_pc = "running"
    /\ mic_pc = "put"
    /\ ~QueueFull(out_queue)
    /\ Enqueue(mic_item)
    /\ mic_pc' = "read"
    /\ mic_item' = NoMsg
    /\ UNCHANGED <<flagVars, camVars, scrVars, drainVars, ctl_pc, textVars, produced,
                   drained, typed, direct_sends, overtaken>>
    /\ UNCHANGED <<connVars, histVars, turnVars>>

\* get_frames: the top of "while True" (after VideoCapture was opened, or
\* after the sleep): "if self.camera_enabled".
CamCycle ==
    /\ run_pc = "running"
    /\ cam_pc \in {"open", "sleep"}
    /\ cam_pc' = IF camera_enabled THEN "capture" ELSE "sleep"
    /\ UNCHANGED <<cam_item, flagVars, out_queue, micVars, scrVars, drainVars,
                   ctl_pc, textVars, logVars>>
    /\ UNCHANGED <<connVars, histVars, turnVars>>

\* _get_frame in its worker thread: None when the camera is disabled or
\* cap.read() fails, else a frame.
CamThread ==
    /\ run_pc = "running"
    /\ cam_pc = "capture"
    /\ \E ret \in BOOLEAN :
        IF camera_enabled /\ ret /\ produced < MaxMsgs
        THEN /\ cam_item' = [src |-> "camera", acc |-> 0]
             /\ produced' = produced + 1
        ELSE /\ cam_item' = NoMsg
             /\ UNCHANGED produced
    /\ cam_pc' = "captured"
    /\ UNCHANGED <<flagVars, out_queue, micVars, scrVars, drainVars, ctl_pc, textVars,
                   accepted, drained, typed, direct_sends, overtaken>>
    /\ UNCHANGED <<connVars, histVars, turnVars>>

\* get_frames resumes with the thread's result: "if frame: await put", then
\* the sleep.
CamResume ==
    /\ run_pc = "running"
    /\ cam_pc = "captured"
    /\ IF cam_item = NoMsg
       THEN /\ cam_pc' = "sleep"
            /\ UNCHANGED <<cam_item, out_queue, accepted>>
       ELSE IF QueueFull(out_queue)
       THEN /\ cam_pc' = "put"
            /\ UNCHANGED <<cam_item, out_queue, accepted>>
       ELSE /\ Enqueue(cam_item)
            /\ cam_item' = NoMsg
            /\ cam_pc' = "sleep"
    /\ UNCHANGED <<flagVars, micVars, scrVars, drainVars, ctl_pc, textVars, produced,
                   drained, typed, direct_sends, overtaken>>
    /\ UNCHANGED <<connVars, histVars, turnVars>>

\* get_frames: the suspended put is resumed with room in the queue.
CamPut ==
    /\ run_pc = "running"
    /\ cam_pc = "put"
    /\ ~QueueFull(out_queue)
    /\ Enqueue(cam_item)
    /\ cam_item' = NoMsg
    /\ cam_pc' = "sleep"
    /\ UNCHANGED <<flagVars, micVars, scrVars, drainVars, ctl_pc, textVars, produced,
                   drained, typed, direct_sends, overtaken>>
    /\ UNCHANGED <<connVars, histVars, turnVars>>

\* get_frames: the capture raises; "except Exception" is outside the loop,
\* so the function prints, releases the camera and returns.
CamRaise ==
    /\ run_pc = "running"
    /\ cam_pc = "capture"
    /\ cam_pc' = "ended"
    /\ UNCHANGED <<cam_item, flagVars, out_queue, micVars, scrVars, drainVars,
                   ctl_pc, textVars, logVars>>
    /\ UNCHANGED <<connVars, histVars, turnVars>>

\* get_screen: the top of "while True": "if self.screen_enabled".
ScrCycle ==
    /\ run_pc = "running"
    /\ scr_pc \in {"start", "sleep", "error_sleep"}
    /\ scr_pc' = IF screen_enabled THEN "capture" ELSE "sleep"
    /\ UNCHANGED <<scr_item, flagVars, out_queue, micVars, camVars, drainVars,
                   ctl_pc, textVars, logVars>>
    /\ UNCHANGED <<connVars, histVars, turnVars>>

\* _get_screen in its worker thread: None when screen sharing is disabled
\* or the grab failed (it catches its own exceptions), else a frame.
ScrThread ==
    /\ run_pc = "running"
    /\ scr_pc = "capture"
    /\ \E grabbed \in BOOLEAN :
        IF screen_enabled /\ grabbed /\ produced < MaxMsgs
        THEN /\ scr_item' = [src |-> "screen", acc |-> 0]
             /\ produced' = produced + 1
        ELSE /\ scr_item' = NoMsg
             /\ UNCHANGED produced
    /\ scr_pc' = "captured"
    /\ UNCHANGED <<flagVars, out_queue, micVars, camVars, drainVars, ctl_pc, textVars,
                   accepted, drained, typed, direct_sends, overtaken>>
    /\ UNCHANGED <<connVars, histVars, turnVars>>

\* get_screen resumes with the thread's result.
ScrResume ==
    /\ run_pc = "running"
    /\ scr_pc = "captured"
    /\ IF scr_item = NoMsg
       THEN /\ scr_pc' = "sleep"
            /\ UNCHANGED <<scr_item, out_queue, accepted>>
       ELSE IF QueueFull(out_queue)
       THEN /\ scr_pc' = "put"
            /\ UNCHANGED <<scr_item, out_queue, accepted>>
       ELSE /\ Enqueue(scr_item)
            /\ scr_item' = NoMsg
            /\ scr_pc' = "sleep"
    /\ UNCHANGED <<flagVars, micVars, camVars, drainVars, ctl_pc, textVars, produced,
                   drained, typed, direct_sends, overtaken>>
    /\ UNCHANGED <<connVars, histVars, turnVars>>

\* get_screen: the suspended put is resumed with room in the queue.
ScrPut ==
    /\ run_pc = "running"
    /\ scr_pc = "put"
    /\ ~QueueFull(out_queue)
    /\ Enqueue(scr_item)
    /\ scr_item' = NoMsg
    /\ scr_pc' = "sleep"
    /\ UNCHANGED <<flagVars, micVars, camVars, drainVars, ctl_pc, textVars, produced,
                   drained, typed, direct_sends, overtaken>>
    /\ UNCHANGED <<connVars, histVars, turnVars>>

\* get_screen: the awaited capture raises; "except Exception" is inside the
\* loop: print, sleep 1.0 s, next pass.
ScrRaise ==
    /\ run_pc = "running"
    /\ scr_pc = "capture"
    /\ scr_pc' = "error_sleep"
    /\ UNCHANGED <<scr_item, flagVars, out_queue, micVars, camVars, drainVars,
                   ctl_pc, textVars, logVars>>
    /\ UNCHANGED <<connVars, histVars, turnVars>>

\* A drain that takes the message get() returns and discards the one behind it.
DrainTake_DropNext ==
    LET i == PopIndex(out_queue) IN
    /\ drain_msg' = out_queue[i]
    /\ out_queue' = IF Len(out_queue) > 1
                    THEN QueueRemove(QueueRemove(out_queue, i), i)
                    ELSE QueueRemove(out_queue, i)
    /\ drained' = drained + 1
    /\ drain_pc' = "send"

\* send_realtime takes the message get() returns and calls session.send.
DrainTake ==
    LET i == PopIndex(out_queue) IN
    /\ drain_msg' = out_queue[i]
    /\ out_queue' = QueueRemove(out_queue, i)
    /\ drained' = drained + 1
    /\ drain_pc' = "send"

\* send_realtime: "msg = await out_queue.get()" was suspended on an empty
\* queue and is resumed with a message.
DrainGet ==
    /\ run_pc = "running"
    /\ drain_pc = "get"
    /\ out_queue # <<>>
    /\ DrainTake
    /\ UNCHANGED <<flagVars, micVars, camVars, scrVars, ctl_pc, textVars, produced,
                   accepted, typed, direct_sends, overtaken>>
    /\ UNCHANGED <<connVars, histVars, turnVars>>

\* send_realtime: session.send returned; the next get() returns at once when
\* the queue holds a message and suspends when it is empty.
DrainSent ==
    /\ run_pc = "running"
    /\ drain_pc = "send"
    /\ IF out_queue # <<>>
       THEN DrainTake
       ELSE /\ drain_pc' = "get"
            /\ drain_msg' = NoMsg
            /\ UNCHANGED <<out_queue, drained>>
    /\ UNCHANGED <<flagVars, micVars, camVars, scrVars, ctl_pc, textVars, produced,
                   accepted, typed, direct_sends, overtaken>>
    /\ UNCHANGED <<connVars, histVars, turnVars>>

\* send_text: "camera on" / "camera off" (VideoManager.toggle_camera).
CmdCamera ==
    /\ run_pc = "running"
    /\ ctl_pc = "input"
    /\ \E enabled \in BOOLEAN : camera_enabled' = enabled
    /\ UNCHANGED <<video_mode, screen_enabled, out_queue, micVars, camVars,
                   scrVars, drainVars, ctl_pc, textVars, logVars>>
    /\ UNCHANGED <<connVars, histVars, turnVars>>

\* send_text: "screen on" / "screen off" (VideoManager.toggle_screen).
CmdScreen ==
    /\ run_pc = "running"
    /\ ctl_pc = "input"
    /\ \E enabled \in BOOLEAN : screen_enabled' = enabled
    /\ UNCHANGED <<video_mode, camera_enabled, out_queue, micVars, camVars,
                   scrVars, drainVars, ctl_pc, textVars, logVars>>
    /\ UNCHANGED <<connVars, histVars, turnVars>>

\* send_text: a line that is no command and not blank;
\* send_message_with_context appends it to the history and calls
\* session.send(input=message, end_of_turn=...) itself.
SendMessage ==
    /\ run_pc = "running"
    /\ ctl_pc = "input"
    /\ typed < MaxTexts
    /\ typed' = typed + 1
    /\ conversation_history' =
           add_to_conversation_history(conversation_history, "user", typed + 1)
    /\ append_log' = Append(append_log, [role |-> "user", content |-> typed + 1])
    /\ direct_sends' = direct_sends + 1
    /\ last_send' = [input |-> typed + 1, end_of_turn |-> AUTO_END_TURN]
    /\ overtaken' = (overtaken \/ out_queue # <<>>)
    /\ ctl_pc' = "sending"
    /\ UNCHANGED <<flagVars, out_queue, micVars, camVars, scrVars, drainVars,
                   produced, accepted, drained, CONVERSATION_MEMORY,
                   AUTO_END_TURN, text, lines_read, input_errors,
                   last_error>>
    /\ UNCHANGED <<connVars, turnVars>>

\* send_message_with_context: session.send returned (or raised: the except
\* prints); send_text goes on to its 0.1 s sleep.
MessageSent ==
    /\ run_pc = "running"
    /\ ctl_pc = "sending"
    /\ ctl_pc' = "pause"
    /\ UNCHANGED <<flagVars, out_queue, micVars, camVars, scrVars, drainVars,
                   logVars, textVars>>
    /\ UNCHANGED <<connVars, histVars, turnVars>>

\* send_text: the sleep is over, the next input() is started.
PauseDone ==
    /\ run_pc = "running"
    /\ ctl_pc = "pause"
    /\ ctl_pc' = "input"
    /\ UNCHANGED <<flagVars, out_queue, micVars, camVars, scrVars, drainVars,
                   logVars, textVars>>
    /\ UNCHANGED <<connVars, histVars, turnVars>>

\* send_text: "q" or "quit": break.
CmdQuit ==
    /\ run_pc = "running"
    /\ ctl_pc = "input"
    /\ ctl_pc' = "done"
    /\ UNCHANGED <<flagVars, out_queue, micVars, camVars, scrVars, drainVars,
                   logVars, textVars>>
    /\ UNCHANGED <<connVars, histVars, turnVars>>

\* BaseExceptionGroup("unhandled errors in a TaskGroup", errors): what the
\* task group raises into run() when a task ended with an exception.
TaskGroupError ==
    [cls |-> "ExceptionGroup", quota |-> FALSE, c1011 |-> FALSE,
     allModels |-> FALSE, allAvailable |-> FALSE]

\* A cancellation that does not wake a task suspended on a queue.
Cancel_SkipSuspended(pc) ==
    IF pc \in {"absent", "ended", "failed", "done", "put", "get"}
    THEN pc
    ELSE "cancelled"

\* A task the group cancels gets CancelledError at the await it is suspended
\* in; no task catches it. A task that is over stays as it ended.
Cancel(pc) ==
    IF pc \in {"absent", "ended", "failed", "done"} THEN pc ELSE "cancelled"

\* Some task of the group ended with an exception.
AnyFailed == "failed" \in {mic_pc, cam_pc, scr_pc, drain_pc, decode_pc, play_pc,
                           ctl_pc}

\* run(): "await send_text_task" returns and run() raises CancelledError
\* inside the task group, which cancels every task that is left: each gets
\* CancelledError at the await it is suspended in, and what it held is gone.
RunQuit ==
    /\ run_pc = "running"
    /\ ctl_pc = "done"
    /\ ~AnyFailed
    /\ raised' = CancelledError
    /\ run_pc' = "except"
    /\ mic_pc' = Cancel(mic_pc)
    /\ cam_pc' = Cancel(cam_pc)
    /\ scr_pc' = Cancel(scr_pc)
    /\ drain_pc' = Cancel(drain_pc)
    /\ decode_pc' = Cancel(decode_pc)
    /\ play_pc' = Cancel(play_pc)
    /\ mic_item' = NoMsg
    /\ cam_item' = NoMsg
    /\ scr_item' = NoMsg
    /\ UNCHANGED <<MODEL_NAME, FALLBACK_MODELS, fate, idx, attempts, session,
                   tasks_started, report, cleanups>>
    /\ UNCHANGED <<flagVars, out_queue, drain_msg, ctl_pc, textVars, logVars>>
    /\ UNCHANGED <<turn_no, ev_no, current_response, tokens, response_started,
                   has_content, search_results_shown, search_prints,
                   code_execution_shown,
                   is_ai_speaking, search_enabled, audio_in_queue, last_end,
                   flushed, playing, stale_taken>>
    /\ UNCHANGED histVars

\* listen_audio has no try: an exception of pya.open or of the stream read
\* ends the task.
MicFail ==
    /\ run_pc = "running"
    /\ mic_pc \in {"open", "read"}
    /\ mic_pc' = "failed"
    /\ UNCHANGED <<mic_item, flagVars, out_queue, camVars, scrVars, drainVars,
                   ctl_pc, textVars, logVars>>
    /\ UNCHANGED <<connVars, histVars, turnVars>>

\* send_realtime has no try: an exception of session.send ends the task.
DrainFail ==
    /\ run_pc = "running"
    /\ drain_pc = "send"
    /\ drain_pc' = "failed"
    /\ drain_msg' = NoMsg
    /\ UNCHANGED <<flagVars, out_queue, micVars, camVars, scrVars, ctl_pc, textVars,
                   logVars>>
    /\ UNCHANGED <<connVars, histVars, turnVars>>

\* play_audio has no try: an exception of pya.open or of the stream write
\* ends the task.
PlayFail ==
    /\ run_pc = "running"
    /\ play_pc \in {"open", "write"}
    /\ play_pc' = "failed"
    /\ playing' = NoChunk
    /\ UNCHANGED <<decode_pc, turn_no, ev_no, current_response, tokens,
                   response_started, has_content, search_results_shown, search_prints,
                   code_execution_shown, is_ai_speaking, search_enabled,
                   audio_in_queue, last_end, flushed, stale_taken>>
    /\ UNCHANGED <<connVars, histVars, queueVars>>

\* Every task of the group is cancelled.
CancelTasks ==
    /\ mic_pc' = Cancel(mic_pc)
    /\ cam_pc' = Cancel(cam_pc)
    /\ scr_pc' = Cancel(scr_pc)
    /\ drain_pc' = Cancel(drain_pc)
    /\ decode_pc' = Cancel(decode_pc)
    /\ play_pc' = Cancel(play_pc)
    /\ ctl_pc' = Cancel(ctl_pc)
    /\ mic_item' = NoMsg
    /\ cam_item' = NoMsg
    /\ scr_item' = NoMsg
    /\ UNCHANGED <<flagVars, out_queue, drain_msg, logVars, textVars>>
    /\ UNCHANGED <<turn_no, ev_no, current_response, tokens, response_started,
                   has_content, search_results_shown, search_prints,
                   code_execution_shown,
                   is_ai_speaking, search_enabled, audio_in_queue, last_end,
                   flushed, playing, stale_taken>>
    /\ UNCHANGED histVars

\* The task group after a task ended with an exception: it cancels the
\* other tasks and run(), waits for the tasks, and raises the exception
\* group into run().
GroupAbort ==
    /\ run_pc = "running"
    /\ AnyFailed
    /\ raised' = TaskGroupError
    /\ run_pc' = "except"
    /\ CancelTasks
    /\ UNCHANGED <<MODEL_NAME, FALLBACK_MODELS, fate, idx, attempts, session,
                   tasks_started, report, cleanups>>

\* An interrupt (Ctrl-C) while the task group runs: asyncio.run cancels
\* run(), the CancelledError leaves the "async with" body, the group cancels
\* its tasks, waits for them and lets the CancelledError through.
Interrupt ==
    /\ run_pc = "running"
    /\ ~AnyFailed
    /\ raised' = CancelledError
    /\ run_pc' = "except"
    /\ CancelTasks
    /\ UNCHANGED <<MODEL_NAME, FALLBACK_MODELS, fate, idx, attempts, session,
                   tasks_started, report, cleanups>>

InitQueue ==
    /\ Connected
    /\ HistIdle
    /\ TurnIdle
    /\ \E mode \in VideoModes : QueueStart(mode)
    /\ TextIdle

\* The producers, the drain loop and the end of the run.
NextQueue ==
    \/ MicOpen \/ MicRead \/ MicPut
    \/ CamCycle \/ CamThread \/ CamResume \/ CamPut \/ CamRaise
    \/ ScrCycle \/ ScrThread \/ ScrResume \/ ScrPut \/ ScrRaise
    \/ DrainGet \/ DrainSent
    \/ CmdQuit \/ RunQuit \/ RunExcept \/ RunFinally

SpecQueue == InitQueue /\ [][NextQueue]_vars

\* The same with the text messages the user types.
NextSend ==
    \/ MicOpen \/ MicRead \/ MicPut
    \/ CamCycle \/ CamThread \/ CamResume \/ CamPut \/ CamRaise
    \/ ScrCycle \/ ScrThread \/ ScrResume \/ ScrPut \/ ScrRaise
    \/ DrainGet \/ DrainSent
    \/ SendMessage \/ MessageSent \/ PauseDone
    \/ CmdQuit \/ RunQuit \/ RunExcept \/ RunFinally

SpecSend == InitQueue /\ [][NextSend]_vars

\* The outbound path while the task group runs in the default video mode:
\* the microphone, the screen producer and send_realtime, with a session.send
\* that always returns.
NextDrain ==
    \/ MicOpen \/ MicRead \/ MicPut
    \/ ScrCycle \/ ScrThread \/ ScrResume \/ ScrPut \/ ScrRaise
    \/ DrainGet \/ DrainSent

\* The event loop resumes send_realtime when get() has a message, and
\* session.send returns.
FairDrain ==
    /\ WF_vars(DrainGet)
    /\ WF_vars(DrainSent)

\* A connected run in the default video mode: the microphone and the screen
\* producer feed out_queue.
InitDrain ==
    /\ Connected
    /\ HistIdle
    /\ TurnIdle
    /\ QueueIdle

SpecDrain == InitDrain /\ [][NextDrain]_vars /\ FairDrain

-----------------------------------------------------------------------------
(* send_text: one line of input *)

\* The words send_text compares a line with.
CommandWords ==
    {"q", "quit", "camera off", "camera on", "screen off", "screen on",
     "search off", "search on", "clear", "history", "prompt", "status"}

\* The lines the user enters: a command word or another word, in lower or
\* upper case, alone or with blanks around it; and the lines without a word.
Lines ==
    {[word |-> w, upper |-> u, pad |-> b] :
        w \in CommandWords \cup {"hello"}, u \in BOOLEAN, b \in BOOLEAN}
    \cup {[word |-> "", upper |-> FALSE, pad |-> b] : b \in BOOLEAN}

\* A string literal of the source.
Literal(w) == [word |-> w, upper |-> FALSE, pad |-> FALSE]

\* A lower() that leaves the case as it is.
Lower_Identity(l) == l

\* text.lower()
Lower(l) == [l EXCEPT !.upper = FALSE]

\* A strip() that leaves the blanks.
Strip_None(l) == l

\* text.strip()
Strip(l) == [l EXCEPT !.pad = FALSE]

\* The truth value of a string: it is not empty.
Truthy(l) == l.word # "" \/ l.pad

\* The if-chain of send_text: what a line is taken for.
Command(l) ==
    LET t == Lower(l) IN
    IF t \in {Literal("q"), Literal("quit")} THEN "quit"
    ELSE IF t = Literal("camera off") THEN "camera off"
    ELSE IF t = Literal("camera on") THEN "camera on"
    ELSE IF t = Literal("screen off") THEN "screen off"
    ELSE IF t = Literal("screen on") THEN "screen on"
    ELSE IF t = Literal("search off") THEN "search off"
    ELSE IF t = Literal("search on") THEN "search on"
    ELSE IF t = Literal("clear") THEN "clear"
    ELSE IF t = Literal("history") THEN "history"
    ELSE IF t = Literal("prompt") THEN "prompt"
    ELSE IF t = Literal("status") THEN "status"
    ELSE IF Truthy(Strip(l)) THEN "message"
    ELSE "blank"

\* send_text: input() returns a line and the body of the loop handles it,
\* up to the next await (the next input(), or the session.send of
\* send_message_with_context).
HandleLine ==
    /\ run_pc = "running"
    /\ ctl_pc = "input"
    /\ lines_read < MaxLines
    /\ \E line \in Lines :
        LET c == Command(line)
            entry == [role |-> "user", content |-> typed + 1]
        IN
        /\ c = "message" => typed < MaxTexts
        /\ text' = line
        /\ lines_read' = lines_read + 1
        /\ ctl_pc' = CASE c = "quit" -> "done"
                        [] c = "message" -> "sending"
                        [] OTHER -> "input"
        /\ camera_enabled' = CASE c = "camera off" -> FALSE
                                [] c = "camera on" -> TRUE
                                [] OTHER -> camera_enabled
        /\ screen_enabled' = CASE c = "screen off" -> FALSE
                                [] c = "screen on" -> TRUE
                                [] OTHER -> screen_enabled
        /\ search_enabled' = CASE c = "search off" -> FALSE
                                [] c = "search on" -> TRUE
                                [] OTHER -> search_enabled
        /\ conversation_history' =
               CASE c = "clear" -> <<>>
                 [] c = "message" ->
                        add_to_conversation_history(conversation_history,
                                                    "user", typed + 1)
                 [] OTHER -> conversation_history
        /\ append_log' = CASE c = "clear" -> <<>>
                            [] c = "message" -> Append(append_log, entry)
                            [] OTHER -> append_log
        /\ IF c = "message"
           THEN /\ typed' = typed + 1
                /\ direct_sends' = direct_sends + 1
                /\ last_send' = [input |-> typed + 1,
                                 end_of_turn |-> AUTO_END_TURN]
                /\ overtaken' = (overtaken \/ out_queue # <<>>)
           ELSE UNCHANGED <<typed, direct_sends, last_send, overtaken>>
    /\ UNCHANGED <<video_mode, out_queue, micVars, camVars, scrVars, drainVars,
                   produced, accepted, drained, AUTO_END_TURN, input_errors,
                   last_error>>
    /\ UNCHANGED <<decode_pc, turn_no, ev_no, current_response, tokens,
                   response_started, has_content, search_results_shown, search_prints,
                   code_execution_shown, is_ai_speaking, audio_in_queue,
                   last_end, flushed, play_pc, playing, stale_taken>>
    /\ UNCHANGED <<connVars, CONVERSATION_MEMORY>>

\* What the body of the loop of send_text raises: the console read at the
\* end of input or on a closed console, and an interrupt from the keyboard.
LoopErrors == {"EOFError", "OSError", "KeyboardInterrupt"}

\* Except clauses that leave the loop on every exception.
ExceptClause_Break(cls) == "break"

\* "except KeyboardInterrupt: break" and "except Exception: print(...)": the
\* second falls through to the next pass of "while True".
ExceptClause(cls) ==
    IF cls = "KeyboardInterrupt" THEN "break" ELSE "continue"

\* send_text: the read of a line raises, and an except clause of the loop
\* handles it.
InputRaise ==
    /\ run_pc = "running"
    /\ ctl_pc = "input"
    /\ input_errors < MaxInputErrors
    /\ \E cls \in LoopErrors :
        /\ last_error' = cls
        /\ ctl_pc' = IF ExceptClause(cls) = "break" THEN "done" ELSE "input"
    /\ input_errors' = input_errors + 1
    /\ UNCHANGED <<flagVars, out_queue, micVars, camVars, scrVars, drainVars,
                   logVars, AUTO_END_TURN, text, lines_read, last_send>>
    /\ UNCHANGED <<connVars, histVars, turnVars>>

\* A connected run in the default video mode, with either value of
\* AUTO_END_TURN.
InitText ==
    /\ Connected
    /\ HistIdle
    /\ TurnIdle
    /\ QueueStart("screen")
    /\ AUTO_END_TURN \in BOOLEAN
    /\ TextStart

\* The lines of the user, with the audio path at work next to them.
NextText ==
    \/ HandleLine \/ MessageSent \/ PauseDone
    \/ MicOpen \/ MicRead \/ MicPut
    \/ DrainGet \/ DrainSent

SpecText == InitText /\ [][NextText]_vars

\* The controller and run(): the lines and the failing reads of send_text,
\* the end of run() after quit or after an interrupt of the process.
NextCtl ==
    \/ HandleLine \/ MessageSent \/ PauseDone \/ InputRaise
    \/ RunQuit \/ Interrupt \/ RunExcept \/ RunFinally

SpecCtl == InitTurn /\ [][NextCtl]_vars

\* The video producers with the commands that switch them on and off, and
\* the drain loop that takes their frames.
NextToggle ==
    \/ CmdCamera \/ CmdScreen
    \/ CamCycle \/ CamThread \/ CamResume \/ CamPut \/ CamRaise
    \/ ScrCycle \/ ScrThread \/ ScrResume \/ ScrPut \/ ScrRaise
    \/ DrainGet \/ DrainSent

SpecToggle == InitQueue /\ [][NextToggle]_vars

-----------------------------------------------------------------------------
(* The life of a run: connection, the task group, and the ways out of it *)

\* A run from its start with one candidate model, in any video mode; the
\* remote endpoint accepts the connection or fails it in any way.
InitLife ==
    /\ MODEL_NAME = 0
    /\ FALLBACK_MODELS = <<>>
    /\ fate \in [1..1 -> Fates]
    /\ run_pc = "try_connect"
    /\ idx = 1
    /\ attempts = <<>>
    /\ raised = NoError
    /\ session = NoSession
    /\ tasks_started = FALSE
    /\ report = "none"
    /\ cleanups = 0
    /\ HistIdle
    /\ TurnIdle
    /\ \E mode \in VideoModes : QueueStart(mode)
    /\ TextIdle

\* run() from connection to cleanup, with the tasks of the group: the audio
\* path from the microphone through out_queue to the session, the decode
\* loop's turns, playback's start, the video tasks up to their capture, and
\* the errors and commands that end tasks. (The frames of the video tasks
\* are in NextQueue, the responses of a turn in NextTurn.)
NextLife ==
    \/ TryConnect \/ EnterSession \/ RunExcept \/ RunFinally
    \/ CmdQuit \/ RunQuit \/ Interrupt \/ GroupAbort
    \/ MicOpen \/ MicRead \/ MicPut \/ MicFail
    \/ DrainGet \/ DrainSent \/ DrainFail
    \/ CamCycle \/ CamRaise
    \/ ScrCycle \/ ScrRaise
    \/ StartTurn \/ TurnEnd \/ DecodeRaise \/ RetryAfterError
    \/ PlayOpen \/ PlayFail

\* run() is a coroutine the event loop resumes whenever it can go on, and the
\* task group ends as soon as its tasks are over.
FairRun ==
    /\ WF_vars(TryConnect)
    /\ WF_vars(EnterSession)
    /\ WF_vars(RunQuit)
    /\ WF_vars(GroupAbort)
    /\ WF_vars(RunExcept)
    /\ WF_vars(RunFinally)

\* The sleeps of the decode loop end, and a receive() follows.
FairDecode ==
    /\ WF_vars(RetryAfterError)
    /\ WF_vars(StartTurn)

SpecLife == InitLife /\ [][NextLife]_vars /\ FairRun /\ FairDecode

-----------------------------------------------------------------------------
(* Rolling history *)

\* One call of add_to_conversation_history; the content is the number of
\* the call since the history was last empty.
HistAdd ==
    /\ Len(append_log) < MaxAppends
    /\ \E role \in {"user", "assistant"} :
        LET content == Len(append_log) + 1 IN
        /\ conversation_history' =
               add_to_conversation_history(conversation_history, role, content)
        /\ append_log' = Append(append_log, [role |-> role, content |-> content])
    /\ UNCHANGED CONVERSATION_MEMORY
    /\ UNCHANGED <<connVars, turnVars, queueVars>>

\* send_text: "clear": self.session_manager.conversation_history.clear()
CmdClear ==
    /\ run_pc = "running"
    /\ ctl_pc = "input"
    /\ conversation_history' = <<>>
    /\ append_log' = <<>>
    /\ UNCHANGED CONVERSATION_MEMORY
    /\ UNCHANGED <<connVars, turnVars, queueVars>>

InitHist ==
    /\ Connected
    /\ TurnIdle
    /\ QueueIdle
    /\ CONVERSATION_MEMORY \in 0..MaxMemory
    /\ conversation_history = <<>>
    /\ append_log = <<>>

NextHist == HistAdd \/ CmdClear

SpecHist == InitHist /\ [][NextHist]_vars

-----------------------------------------------------------------------------
(* Connection: claims C1..C4 *)

RunEnded == run_pc \in {"running", "done"}

\* A failure the loop classifies as quota: a ConnectionClosedError whose text
\* carries "quota" or "1011".
QuotaFail(f) ==
    /\ f.at # "ok"
    /\ f.err.cls = "ConnectionClosedError"
    /\ HasQuotaMarker(f.err)

NonQuotaFail(f) == f.at # "ok" /\ ~QuotaFail(f)

Attempted(i) == \E j \in 1..Len(attempts) : attempts[j] = i

\* C1: when the first k candidates fail with a quota error and candidate k+1
\* connects, run() ends with a live session on candidate k+1, having attempted
\* exactly the candidates 1..k+1 in list order.
C1_FallbackOrder ==
    \A k \in 0..(Len(models_to_try) - 1) :
        ( /\ \A i \in 1..k : QuotaFail(fate[i])
          /\ fate[k + 1].at = "ok"
          /\ RunEnded )
        => /\ session = models_to_try[k + 1]
           /\ attempts = [i \in 1..(k + 1) |-> i]

\* C2: a non-quota failure of a candidate that is not the last one is followed
\* by an attempt on the next candidate, and an error reaches run() only after
\* the last candidate was attempted.
C2_NonQuotaContinues ==
    RunEnded =>
        /\ \A i \in 1..(Len(models_to_try) - 1) :
               (Attempted(i) /\ NonQuotaFail(fate[i])) => Attempted(i + 1)
        /\ raised # NoError => Attempted(Len(models_to_try))

\* C3: the "all models exhausted" error is raised exactly when the candidate
\* at the last position fails with a quota error, and a quota failure at an
\* earlier position advances to the next candidate whatever its name.
C3_ExhaustedOnlyAtLast ==
    RunEnded =>
        /\ raised = ExhaustedError
               <=> ( /\ Attempted(Len(models_to_try))
                     /\ QuotaFail(fate[Len(models_to_try)]) )
        /\ \A i \in 1..(Len(models_to_try) - 1) :
               (Attempted(i) /\ QuotaFail(fate[i])) => Attempted(i + 1)

\* C4: with one candidate that fails with a non-quota error there is exactly
\* one attempt, run() receives the "all models failed" error, and it cleans up
\* without having started a task.
C4_SingleCandidateFails ==
    ( /\ Len(models_to_try) = 1
      /\ NonQuotaFail(fate[1])
      /\ run_pc = "done" )
    => /\ attempts = <<1>>
       /\ raised = AllFailedError
       /\ cleanups = 1
       /\ ~tasks_started

-----------------------------------------------------------------------------
(* Decode loop and playback: claims C5, C6 *)

\* C5: once a turn's stream was exhausted, the playback queue is empty when
\* the loop is back at session.receive(), and while the next turn is decoded
\* the queue holds chunks of that turn only.
C5_FlushAtTurnEnd ==
    last_end = "exhausted" =>
        /\ decode_pc = "receive" => audio_in_queue = <<>>
        /\ decode_pc = "stream" =>
               \A i \in 1..Len(audio_in_queue) : audio_in_queue[i].turn = turn_no

\* A turn enqueued two chunks, play_audio took none (it has not opened its
\* stream yet), the stream was exhausted and the flush discarded both.
C5_Witness ==
    /\ decode_pc = "receive"
    /\ last_end = "exhausted"
    /\ flushed >= 2
    /\ play_pc = "open"
    /\ audio_in_queue = <<>>

\* C6: however a turn ended (stream exhausted or an exception), play_audio
\* never takes a chunk of turn n once turn n+1 has begun.
C6_NoStaleAudio == ~stale_taken

-----------------------------------------------------------------------------
(* Outbound path: claims C7, C8, C9 *)

Sources(q) == {q[i].src : i \in 1..Len(q)}

\* C7: whatever producers put them, out_queue holds the accepted messages in
\* the order of their acceptance, and the k-th message send_realtime hands to
\* session.send is the k-th message out_queue accepted.
C7_FifoAcrossProducers ==
    /\ \A i \in 1..Len(out_queue) : out_queue[i].acc = drained + i
    /\ drain_pc = "send" => drain_msg.acc = drained

\* send_realtime is sending a message while messages wait behind it, and the
\* three producers all have a message among them.
C7_Witness ==
    /\ drain_pc = "send"
    /\ drained >= 2
    /\ Len(out_queue) >= 2
    /\ Sources(out_queue) \cup {drain_msg.src} = {"mic", "camera", "screen"}

Holds(item) == IF item = NoMsg THEN 0 ELSE 1

\* The messages producers hold for a put that has not gone through.
Pending == Holds(mic_item) + Holds(cam_item) + Holds(scr_item)

\* While the task group runs: at most 5 messages in out_queue, and every
\* captured message is held by its producer, is in the queue or went to
\* send_realtime.
C8_State ==
    /\ Len(out_queue) <= 5
    /\ run_pc = "running" =>
           /\ produced = accepted + Pending
           /\ accepted = drained + Len(out_queue)

\* A producer suspended in put on a full queue is, after any step, still
\* suspended with its message, unless the task group cancelled it.
C8_Step ==
    Len(out_queue) >= 5 =>
        /\ mic_pc = "put" =>
               (mic_pc' = "put" /\ mic_item' = mic_item) \/ mic_pc' = "cancelled"
        /\ cam_pc = "put" =>
               (cam_pc' = "put" /\ cam_item' = cam_item) \/ cam_pc' = "cancelled"
        /\ scr_pc = "put" =>
               (scr_pc' = "put" /\ scr_item' = scr_item) \/ scr_pc' = "cancelled"

\* C8: out_queue never holds more than 5 messages; a put on a full queue
\* keeps its producer suspended, with its message, until send_realtime took
\* a message; no message is lost.
C8_Backpressure == [](C8_State) /\ [][C8_Step]_vars

\* The queue is full and two producers are suspended in put.
C8_Witness ==
    /\ run_pc = "running"
    /\ Len(out_queue) = 5
    /\ mic_pc = "put"
    /\ mic_item # NoMsg
    /\ scr_pc = "put"

\* C9: every session.send call is made by send_realtime for a message taken
\* from out_queue, no two session.send calls are in progress together, and a
\* text is never sent ahead of media accepted before it.
C9_SingleSerializationPoint ==
    /\ direct_sends = 0
    /\ ~(drain_pc = "send" /\ ctl_pc = "sending")
    /\ ~overtaken

-----------------------------------------------------------------------------
(* Rolling history: claim C10 *)

\* C10: with a capacity K >= 1, after N > K appends to an empty history the
\* history is the last K appended entries, in their order.
C10_RollingHistory ==
    LET K == CONVERSATION_MEMORY
        N == Len(append_log)
    IN (K >= 1 /\ N > K) =>
           /\ Len(conversation_history) = K
           /\ conversation_history = SubSeq(append_log, N - K + 1, N)

\* Four appends with capacity 2: entries were evicted twice.
C10_Witness ==
    /\ CONVERSATION_MEMORY = 2
    /\ Len(append_log) = 4
    /\ Len(conversation_history) = 2

-----------------------------------------------------------------------------
(* Turn-end commit: claim C11 *)

\* The step in which the decode loop finds the turn's stream exhausted.
StreamExhausted == decode_pc = "stream" /\ decode_pc' \in {"commit_sleep", "receive"}

AssistantEntries(h) == {i \in 1..Len(h) : h[i].role = "assistant"}

\* At the end of a turn with text tokens one assistant entry holding the
\* tokens in arrival order is appended and the flag is reset; at the end of
\* a turn without any, and in every other step, nothing is appended.
C11_Step ==
    LET entry == [role |-> "assistant", content |-> tokens] IN
    IF StreamExhausted /\ tokens # <<>>
    THEN /\ append_log' = Append(append_log, entry)
         /\ conversation_history' = Append(conversation_history, entry)
         /\ ~is_ai_speaking'
    ELSE /\ append_log' = append_log
         /\ conversation_history' = conversation_history

\* C11: a turn whose stream is exhausted after at least one text token
\* appends exactly one assistant entry, the turn's tokens in arrival order,
\* and leaves the assistant-speaking flag false; a turn without a text
\* token appends nothing.
C11_TurnEndCommit == [][C11_Step]_vars

\* The second turn, begun after the first one raised with the flag still
\* set, delivered two tokens and committed them as one entry.
C11_Witness ==
    /\ decode_pc = "commit_sleep"
    /\ turn_no = 2
    /\ Len(tokens) = 2
    /\ Len(conversation_history) = 1
    /\ conversation_history[1] = [role |-> "assistant", content |-> tokens]
    /\ ~is_ai_speaking

-----------------------------------------------------------------------------
(* The ways out of the task group: claims C12, C13, C14 *)

\* The states of a task that is over (or was never created).
Over == {"absent", "ended", "failed", "cancelled", "done"}

\* The tasks next to the controller.
SiblingPcs == {mic_pc, cam_pc, scr_pc, drain_pc, decode_pc, play_pc}

TasksOver == SiblingPcs \cup {ctl_pc} \subseteq Over

\* run() is past the task group, which it left with the CancelledError of
\* "User requested exit".
LeftByQuit ==
    /\ ctl_pc = "done"
    /\ run_pc \in {"except", "finally", "done"}
    /\ raised = CancelledError

\* C12: once the user entered quit, run() eventually returns with every task
\* of the group over; and when run() left the group by the quit, every
\* sibling that had not ended by itself was cancelled, wherever it was
\* suspended.
C12_QuitPropagates ==
    /\ (ctl_pc = "done") ~> (run_pc = "done" /\ TasksOver)
    /\ [](LeftByQuit => SiblingPcs \subseteq {"absent", "ended", "cancelled"})

\* run() returned after a quit in mode "both": the microphone task was
\* cancelled while suspended in put on the full out_queue (its message was
\* never accepted), and the other siblings were cancelled as well.
C12_Witness ==
    /\ LeftByQuit
    /\ run_pc = "done"
    /\ Len(out_queue) = OUT_QUEUE_MAXSIZE
    /\ produced = accepted + 1
    /\ SiblingPcs = {"cancelled"}
    /\ video_mode = "both"

\* A task is over because of an error: an exception left its function, or
\* (get_frames) an exception ended its loop.
EndedByError == AnyFailed \/ cam_pc = "ended"

\* C13: when an error has ended a task of the group, the group ends: either
\* it is about to cancel the other tasks (it holds the task's exception), or
\* run() has left it with every task over.
C13_FailureTerminatesGroup ==
    EndedByError =>
        IF run_pc = "running" THEN AnyFailed ELSE TasksOver

\* Something that ends the run has happened: the connection failed, the
\* user quit, a task ended with an exception, or an exception (that of an
\* interrupt included) has reached run()'s except clauses.
ExitCause ==
    \/ fate[1].at # "ok"
    \/ ctl_pc = "done"
    \/ AnyFailed
    \/ run_pc = "except"

\* cleanup() is not called twice, not before run()'s finally, and not while
\* a task of the group is left; and run() does not return without it.
C14_State ==
    /\ cleanups <= 1
    /\ cleanups = 1 => run_pc = "done"
    /\ run_pc = "done" => cleanups = 1
    /\ run_pc \in {"except", "finally", "done"} => (TasksOver \/ ~tasks_started)

\* C14: on every way out of run() (connection failure, quit, interrupt,
\* task failure) cleanup is eventually executed, exactly once, and only after
\* every task of the group is over.
C14_CleanupOnEveryExit ==
    /\ []C14_State
    /\ ExitCause ~> (run_pc = "done" /\ cleanups = 1)

\* run() returned through the "unexpected error" branch after send_realtime
\* failed in session.send: the other tasks were cancelled, cleanup ran once.
C14_Witness ==
    /\ run_pc = "done"
    /\ cleanups = 1
    /\ report = "unexpected"
    /\ drain_pc = "failed"
    /\ mic_pc = "cancelled"
    /\ ctl_pc = "cancelled"
    /\ TasksOver

-----------------------------------------------------------------------------
(* Errors inside the producers and the decode loop: claims C15, C16, C17 *)

\* The step in which a capture of the camera (of the screen) raises.
CamCaptureError == cam_pc = "capture" /\ cam_pc' \notin {"capture", "captured", "cancelled"}
ScrCaptureError == scr_pc = "capture" /\ scr_pc' \notin {"capture", "captured", "cancelled"}

\* C15: a capture error of the camera producer or of the screen producer
\* is caught in its cycle: the producer goes to its pause, from which the
\* loop goes on, and its task is never over because of the error.
C15_CaptureErrorsCaught ==
    /\ [][CamCaptureError => cam_pc' \in {"sleep", "error_sleep"}]_vars
    /\ [][ScrCaptureError => scr_pc' \in {"sleep", "error_sleep"}]_vars
    /\ [](cam_pc # "ended" /\ scr_pc # "ended")

\* C16: whatever the read of a microphone chunk does, an error included,
\* listen_audio stays in its loop (reading, or suspended in put) until the
\* task group cancels it: a read error does not end the producer, and so
\* does not end the other tasks through the task group.
C16_MicErrorSwallowed ==
    [][mic_pc = "read" => mic_pc' \in {"read", "put", "cancelled"}]_vars

\* C17: the decode loop is never over but by cancellation, which only the
\* end of the task group brings; an exception of a turn takes the loop to
\* its pause, and from the pause the loop goes on to the next receive()
\* (while the remote endpoint has a turn left) unless it is cancelled.
C17_DecodeLoopNeverExits ==
    /\ [](decode_pc \notin {"ended", "failed", "done"})
    /\ [](decode_pc = "cancelled" => run_pc # "running")
    /\ \A n \in 1..(MaxTurns - 1) :
           (decode_pc = "error_sleep" /\ turn_no = n)
               ~> (turn_no = n + 1 \/ decode_pc = "cancelled")

\* A turn raised, and after the pause the loop is in the stream of the next
\* turn.
C17_Witness ==
    /\ decode_pc = "stream"
    /\ turn_no = 2
    /\ last_end = "exception"

-----------------------------------------------------------------------------
(* The commands and the text messages of send_text: claims C18, C19, C20 *)

\* The step in which the camera producer starts a cycle with the camera
\* switched off.
CamCycleOff ==
    /\ cam_pc \in {"open", "sleep"}
    /\ ~camera_enabled
    /\ cam_pc' # cam_pc

\* C18: in every startup mode, a cycle the camera producer starts while the
\* camera is off skips the capture and leaves the task in its loop; and
\* while the camera is on (at startup or by "camera on") there is a camera
\* producer whose next cycle captures. (A producer that a capture error
\* ended is the matter of C15.)
C18_CameraToggle ==
    /\ [][CamCycleOff => cam_pc' = "sleep"]_vars
    /\ [][(cam_pc \in {"open", "sleep"} /\ camera_enabled /\ cam_pc' # cam_pc)
              => cam_pc' = "capture"]_vars
    /\ [](camera_enabled => cam_pc # "absent")

\* A line is a command when, whatever its case, it is one of the words of the
\* vocabulary and nothing else.
IsCommandLine(l) == l.word \in CommandWords /\ ~l.pad

\* A blank line: no word, only blanks or nothing at all.
IsBlankLine(l) == l.word = ""

\* The entry of the user's latest message.
LatestUserEntry == [role |-> "user", content |-> last_send.input]

C19_Step ==
    lines_read' = lines_read + 1 =>
        /\ (~IsCommandLine(text') /\ ~IsBlankLine(text')) =>
              /\ append_log' = Append(append_log, LatestUserEntry')
              /\ conversation_history' # <<>>
              /\ conversation_history'[Len(conversation_history')]
                     = LatestUserEntry'
              /\ direct_sends' = direct_sends + 1
              /\ last_send'.input = typed'
              /\ last_send'.end_of_turn = AUTO_END_TURN
              /\ ctl_pc' = "sending"
        /\ IsBlankLine(text') =>
              UNCHANGED <<conversation_history, append_log, direct_sends,
                          last_send, typed, ctl_pc>>

\* While the submission is in flight the entry is already in the history, and
\* the completion of the submission adds nothing to it.
C19_Order ==
    /\ ctl_pc = "sending" =>
          /\ append_log # <<>>
          /\ append_log[Len(append_log)] = LatestUserEntry
    /\ ctl_pc' # ctl_pc /\ ctl_pc = "sending" =>
          UNCHANGED <<conversation_history, append_log, direct_sends,
                      last_send>>

\* C19: every line that is neither a command nor blank puts exactly one user
\* entry into the conversation history and makes exactly one text submission
\* to the session, with end_of_turn = AUTO_END_TURN, the entry being in the
\* history before the submission is under way; a blank line does neither.
C19_MessageLine == [][C19_Step /\ C19_Order]_vars

\* With AUTO_END_TURN off, a message in upper case with blanks around it was
\* submitted, and after it the user entered a line of blanks.
C19_Witness ==
    /\ ~AUTO_END_TURN
    /\ lines_read = 2
    /\ text = [word |-> "", upper |-> FALSE, pad |-> TRUE]
    /\ direct_sends = 1
    /\ last_send = [input |-> 1, end_of_turn |-> FALSE]
    /\ append_log = <<[role |-> "user", content |-> 1]>>

\* The commands that are said to stay off the network: all but quit.
LocalCommands == CommandWords \ {"q", "quit"}

C20_Step ==
    (/\ lines_read' = lines_read + 1
     /\ IsCommandLine(text')
     /\ text'.word \in LocalCommands) =>
        /\ UNCHANGED <<out_queue, drainVars, produced, accepted, drained>>
        /\ UNCHANGED <<typed, direct_sends, last_send, overtaken>>
        /\ ctl_pc' = "input"
        /\ text'.word # "clear" =>
              UNCHANGED <<conversation_history, append_log>>

\* C20: handling one of the commands camera on/off, screen on/off, search
\* on/off, status, history, clear, prompt leaves out_queue and what was sent
\* to the session as they were, and all of them but clear leave the
\* conversation history as it was.
C20_CommandsStayLocal == [][C20_Step]_vars

\* A command in upper case was handled while out_queue held a message, the
\* drain had sent one, and the history held the user's message.
C20_Witness ==
    /\ lines_read = 2
    /\ text.word \in LocalCommands \ {"clear"}
    /\ text.upper /\ ~text.pad
    /\ out_queue # <<>>
    /\ drained > 0
    /\ direct_sends = 1
    /\ conversation_history # <<>>

-----------------------------------------------------------------------------
(* The process: claim C21 *)

\* How asyncio.run(client.run()) ends for main: run() catches CancelledError
\* and every Exception itself and cleanup() catches its own, so run() returns.
RunOutcome(branch) == "returned"

\* main: the try around asyncio.run. It returns after the call, after
\* "except KeyboardInterrupt" and after "except Exception" alike, and never
\* calls sys.exit: the interpreter ends with status 0.
main(outcome) ==
    CASE outcome = "returned" -> 0
      [] outcome = "KeyboardInterrupt" -> 0
      [] outcome = "Exception" -> 0

\* The exit code of the process once run() is over.
ExitCode == main(RunOutcome(report))

\* C21: the exit code of the process is 0 after a clean exit (quit) and not 0
\* after a fatal error, such as every connection candidate failing.
C21_ExitCode ==
    run_pc = "done" => (ExitCode = 0 <=> report = "exiting")

-----------------------------------------------------------------------------
(* send_realtime: claim C22 *)

\* Each send call of send_realtime carries one message, and the k-th call
\* carries the k-th message out_queue accepted.
C22_State ==
    /\ drain_pc = "send" => drain_msg # NoMsg /\ drain_msg.acc = drained
    /\ drain_pc = "get" => drain_msg = NoMsg
    /\ drained <= accepted
    /\ \A i \in 1..Len(out_queue) : out_queue[i].acc = drained + i

\* One step hands at most one message over.
C22_Step == drained' \in {drained, drained + 1}

\* The k-th message out_queue accepted is in the end handed to session.send.
C22_Live == \A k \in 1..MaxMsgs : (accepted >= k) ~> (drained >= k)

\* C22: with a fair drain loop and a session.send that always returns, every
\* message out_queue accepted is in the end handed to session.send, exactly
\* once and one message per call: nothing is lost, sent twice or batched.
C22_DrainExactlyOnce == [](C22_State) /\ [][C22_Step]_vars /\ C22_Live

\* Every message of a run that filled the queue has been sent, and the drain
\* waits on the empty queue.
C22_Witness ==
    /\ accepted = MaxMsgs
    /\ drained = MaxMsgs
    /\ out_queue = <<>>
    /\ drain_pc = "get"

-----------------------------------------------------------------------------
(* Tool calls within a turn: claim C23 *)

\* The indicator is printed at most once in a turn, and the step that prints
\* it is taken with the search flag on.
C23_Indicator ==
    /\ search_prints' <= 1
    /\ search_prints' > search_prints => search_enabled /\ search_enabled'

\* A response that is no text token leaves the accumulated text as it is, a
\* text token is added at its end, and the entry committed at the end of the
\* turn holds every token of the turn, in order.
C23_Accumulation ==
    /\ (decode_pc = "stream" /\ decode_pc' = "stream") =>
          /\ current_response = tokens
          /\ current_response' = tokens'
    /\ (StreamExhausted /\ Len(append_log') = Len(append_log) + 1) =>
          append_log'[Len(append_log')] =
              [role |-> "assistant", content |-> tokens]

\* C23: within one turn the "tool running" indicator is printed at most once,
\* however many tool calls the turn has, and only while the search flag is
\* on; a tool call does not interrupt the accumulation: every text token of
\* the turn, before and after a tool call, is in the committed entry.
C23_ToolCalls == [][C23_Indicator /\ C23_Accumulation]_vars

\* A turn of a text token, a tool call and a second text token was committed
\* with both tokens, the indicator printed once.
C23_Witness ==
    /\ decode_pc = "commit_sleep"
    /\ ev_no = 3
    /\ tokens = <<1, 3>>
    /\ search_prints = 1
    /\ search_results_shown
    /\ append_log # <<>>
    /\ append_log[Len(append_log)] = [role |-> "assistant", content |-> <<1, 3>>]

-----------------------------------------------------------------------------
(* The bound of the history: claim C24 *)

\* C24: in every reachable state, whatever the order of user appends,
\* assistant commits and clears, the conversation history holds at most
\* CONVERSATION_MEMORY entries, for every value of the setting from 0 on.
C24_HistoryBounded == Len(conversation_history) <= CONVERSATION_MEMORY

-----------------------------------------------------------------------------
(* Camera frames after "camera off": claim C25 *)

\* The step puts a camera frame on out_queue.
CameraFrameAdded ==
    /\ accepted' = accepted + 1
    /\ out_queue' # <<>>
    /\ out_queue'[Len(out_queue')] = [src |-> "camera", acc |-> accepted']

\* C25: while camera_enabled is false no camera frame is added to out_queue,
\* be it a frame captured before the flag was cleared or one whose put was
\* suspended on the full queue.
C25_NoFrameWhileOff == [][CameraFrameAdded => camera_enabled]_vars

-----------------------------------------------------------------------------
(* The start of a turn: claim C26 *)

\* The step calls session.receive().
TurnStarts == turn_no' = turn_no + 1

\* Text tokens of the turn before that no entry of the history holds.
UncommittedText == tokens # <<>> /\ last_end # "exhausted"

C26_Step == TurnStarts => ~is_ai_speaking /\ ~UncommittedText

\* C26: whenever the decode loop starts a turn, the assistant-speaking flag
\* is false and no text of an earlier turn is left uncommitted, also when the
\* turn before was aborted by an exception after text tokens had arrived.
C26_CleanTurnStart == [][C26_Step]_vars

-----------------------------------------------------------------------------
(* The end of the controller loop: claim C27 *)

\* The step reads a line, or fails to.
LineRead == lines_read' = lines_read + 1
ReadFails == input_errors' = input_errors + 1

\* The loop is left by "break" only after a line "q" or "quit" or a
\* KeyboardInterrupt; from outside it is ended only by the cancellation that
\* the interrupt of the process brings.
C27_Ends ==
    /\ (ctl_pc # "done" /\ ctl_pc' = "done") =>
          \/ LineRead /\ Lower(text') \in {Literal("q"), Literal("quit")}
          \/ ReadFails /\ last_error' = "KeyboardInterrupt"
    /\ (ctl_pc # "cancelled" /\ ctl_pc' = "cancelled") =>
          raised' = CancelledError

\* A read that fails with another exception leaves the controller at the next
\* read and the task group running.
C27_Caught ==
    (ReadFails /\ last_error' # "KeyboardInterrupt") =>
        /\ ctl_pc' = "input"
        /\ run_pc' = "running"
        /\ UNCHANGED <<mic_pc, cam_pc, scr_pc, drain_pc, decode_pc, play_pc>>

\* C27: the loop of send_text ends only on q/quit or a KeyboardInterrupt;
\* every other exception raised while a line is read or handled is caught and
\* the loop reads again, so a read that fails on every attempt keeps the
\* controller and the task group running.
C27_ControllerLoop == [][C27_Ends /\ C27_Caught]_vars

\* Every read so far has failed at the end of input, and the controller is at
\* the next read with the task group running.
C27_Witness ==
    /\ input_errors = MaxInputErrors
    /\ lines_read = 0
    /\ last_error = "EOFError"
    /\ ctl_pc = "input"
    /\ run_pc = "running"

====
